---- MODULE Spec2Model ----
(***************************************************************************)
(* Model of src/src/App.tsx: the App component's state (its useState       *)
(* cells), its handlers, and the calls that are outstanding between a      *)
(* handler's await and its continuation.                                   *)
(*                                                                         *)
(* A handler runs to its first await in one step (the event handler), and  *)
(* each continuation after an await runs in one step: JavaScript runs both *)
(* to completion, and React shows the user no state in between.            *)
(* A handler reads the state cells of the render its closure was created   *)
(* in; every trigger is taken from the current render, so at the trigger   *)
(* these are the current cells.  After an await the handlers read no state *)
(* cell: they only call setters.                                           *)
(***************************************************************************)
EXTENDS Naturals, Sequences, FiniteSets, TLC

(***************************************************************************)
(* Bounds of the model.                                                    *)
(***************************************************************************)
\* upload-store specification (SpecStore): the file selections (change
\* events) explored, and the files of all accepted selections together
MaxBatches == 2
MaxPicked == 7
\* the same two bounds beside the generation handlers (Spec)
GenBatches == 1
GenPicked == 1
\* content parts in one image-service response
MaxParts == 2
\* calls of one kind that may be outstanding at once (the UI allows fewer)
MaxInFlight == 2
\* setTimeout callbacks of copyToClipboard that may be pending at once
MaxTimers == 2

(***************************************************************************)
(* Program constants.                                                      *)
(***************************************************************************)
\* App.tsx:83   files.length + newFiles.length > 6
MaxFiles == 6

\* App.tsx:222  setTimeout(..., 2000): the delay of every copied timer, in ms
CopiedDelay == 2000

Null == "null"

\* JavaScript truthiness of a string | null cell:  !x
Falsy(x) == x = Null \/ x = ""

\* The messages of setError, in English.
ErrCapacity   == "at most 6 images can be uploaded"      \* App.tsx:84
ErrValidation == "enter a description or upload images"  \* App.tsx:119
ErrNoImage    == "no image was generated, please retry"  \* App.tsx:168
ErrImage      == "error while generating the image"      \* App.tsx:172
ErrScript     == "error while generating the script"     \* App.tsx:204
\* App.tsx:201  the placeholder stored when the service returns no text
FallbackScript == "cannot generate script"

\* SCENES and STYLES (two rows of each table; SCENES[0], STYLES[0] first)
SCENES == << [id |-> "city",   label |-> "City street", prompt |-> "in a bustling city street"],
             [id |-> "nature", label |-> "Nature",      prompt |-> "in a serene natural landscape"] >>
STYLES == << [id |-> "merged", label |-> "Merged",  prompt |-> "seamlessly merged artistic style"],
             [id |-> "anime",  label |-> "Anime",   prompt |-> "high-quality anime illustration style"] >>

\* SCENES.find(s => s.id === id)?.<field> || ''
Find(table, id) ==
    IF \E i \in 1..Len(table) : table[i].id = id
    THEN table[CHOOSE i \in 1..Len(table) :
                 table[i].id = id /\ \A j \in 1..(i-1) : table[j].id # id]
    ELSE [id |-> id, label |-> "", prompt |-> ""]

\* what the user may type into the description box
Descriptions == {"", "a robot reading a book"}

VARIABLES
    files,              \* useState<UploadedFile[]>([])
    description,        \* useState('')
    selectedScene,      \* useState(SCENES[0].id)
    selectedStyle,      \* useState(STYLES[0].id)
    isGenerating,       \* useState(false)
    generatedImage,     \* useState<string | null>(null)
    videoScript,        \* useState<string | null>(null)
    isGeneratingScript, \* useState(false)
    error,              \* useState<string | null>(null)
    copied,             \* useState(false)
    copyTimers,         \* the pending setTimeout callbacks of copyToClipboard
    clipboard,          \* the text last handed to navigator.clipboard.writeText
    pendingAdds,        \* handleFileChange invocations waiting in Promise.all
    imageCalls,         \* generateImage invocations waiting for the image service
    scriptCalls,        \* generateVideoScript invocations waiting for the text service
    nextBatch,          \* history: number of the next file selection
    picked,             \* history: files of the accepted selections so far
    rejected,           \* history: the selections handleFileChange refused
    objectURLs,         \* the browser's live object URLs: created, not revoked
    imageInputs,        \* history: the description and scene generatedImage was made from
    scriptOrigin,       \* history: is videoScript derived from the current generatedImage
    last                \* history: the handler step taken last

vars == << files, description, selectedScene, selectedStyle, isGenerating,
           generatedImage, videoScript, isGeneratingScript, error,
           pendingAdds, imageCalls, scriptCalls, nextBatch, picked, rejected,
           objectURLs, imageInputs, scriptOrigin, last,
           copied, copyTimers, clipboard >>

uploadVars == << files, pendingAdds, nextBatch, picked, rejected, objectURLs >>
inputVars  == << description, selectedScene, selectedStyle >>
copyVars   == << copied, copyTimers, clipboard >>
imageVars  == << isGenerating, generatedImage, imageCalls, imageInputs >>
scriptVars == << videoScript, isGeneratingScript, scriptCalls, scriptOrigin >>

Init ==
    /\ files = << >>
    /\ description = ""
    /\ selectedScene = SCENES[1].id
    /\ selectedStyle = STYLES[1].id
    /\ isGenerating = FALSE
    /\ generatedImage = Null
    /\ videoScript = Null
    /\ isGeneratingScript = FALSE
    /\ error = Null
    /\ copied = FALSE
    /\ copyTimers = << >>
    /\ clipboard = Null
    /\ pendingAdds = {}
    /\ imageCalls = << >>
    /\ scriptCalls = << >>
    /\ nextBatch = 1
    /\ picked = 0
    /\ rejected = {}
    /\ objectURLs = {}
    /\ imageInputs = Null
    /\ scriptOrigin = "none"
    /\ last = [op |-> "init", arg |-> Null]

(***************************************************************************)
(* Sequence helpers.                                                       *)
(***************************************************************************)
\* s without its i-th element
RemoveAt(s, i) == SubSeq(s, 1, i - 1) \o SubSeq(s, i + 1, Len(s))

\* all sequences over S of length at most n
SeqsUpTo(S, n) == UNION { [1..k -> S] : k \in 0..n }

(***************************************************************************)
(* Upload store: handleFileChange, fileToBase64, removeFile.               *)
(***************************************************************************)
\* ids Math.random().toString(36).substr(2, 9) may return (App.tsx:92); two
\* files may draw the same one
Ids == {"k3x9f0a1b", "p0q2m7c4d"}

\* the k-th file of selection b, as the File object the picker hands over
FileOf(b, k) == << b, k >>

\* fileToBase64: reader.result of readAsDataURL, "data:<type>;base64,<payload>",
\* as its two comma-separated fields
fileToBase64(file) == << "data:image/png;base64", << "b64", file >> >>

\* URL.createObjectURL(file): a new URL at every call, one call per file
createObjectURL(file) == << "blob", file >>

\* one processed file (the object literal of the map callback)
UploadedFile(file, id) ==
    [ id      |-> id,
      file    |-> file,
      preview |-> createObjectURL(file),
      base64  |-> fileToBase64(file)[2] ]

\* handleFileChange with a capacity check that forgets the stored files
handleFileChange_IgnoresStored(n, maxBatches, maxPicked) ==
    /\ nextBatch <= maxBatches
    /\ nextBatch' = nextBatch + 1
    /\ (n > MaxFiles \/ picked + n <= maxPicked)
    /\ IF n > MaxFiles
       THEN /\ error' = ErrCapacity
            /\ rejected' = rejected \cup {nextBatch}
            /\ last' = [op |-> "addRejected", arg |-> Null]
            /\ UNCHANGED << files, pendingAdds, picked >>
       ELSE /\ pendingAdds' = pendingAdds \cup {[batch |-> nextBatch, size |-> n]}
            /\ last' = [op |-> "addStarted", arg |-> Null]
            /\ picked' = picked + n
            /\ UNCHANGED << files, error, rejected >>
    /\ UNCHANGED << objectURLs, inputVars, copyVars, imageVars, scriptVars >>

\* handleFileChange up to its await: the capacity check on the rendered
\* files, then the batch starts decoding.  n is newFiles.length.  The first
\* two conjuncts and the third bound the selections the model explores.
handleFileChange(n, maxBatches, maxPicked) ==
    /\ nextBatch <= maxBatches
    /\ nextBatch' = nextBatch + 1
    /\ (Len(files) + n > MaxFiles \/ picked + n <= maxPicked)
    /\ IF Len(files) + n > MaxFiles
       THEN /\ error' = ErrCapacity
            /\ rejected' = rejected \cup {nextBatch}
            /\ last' = [op |-> "addRejected", arg |-> Null]
            /\ UNCHANGED << files, pendingAdds, picked >>
       ELSE /\ pendingAdds' = pendingAdds \cup {[batch |-> nextBatch, size |-> n]}
            /\ last' = [op |-> "addStarted", arg |-> Null]
            /\ picked' = picked + n
            /\ UNCHANGED << files, error, rejected >>
    /\ UNCHANGED << objectURLs, inputVars, copyVars, imageVars, scriptVars >>

\* handleFileChange after Promise.all resolved: every file decoded, each got
\* its Math.random() id; setFiles(prev => [...prev, ...processedFiles]) and
\* setError(null)
handleFileChangeDone(p, ids) ==
    /\ p \in pendingAdds
    /\ pendingAdds' = pendingAdds \ {p}
    /\ files' = files \o [k \in 1..p.size |-> UploadedFile(FileOf(p.batch, k), ids[k])]
    /\ objectURLs' = objectURLs \cup {createObjectURL(FileOf(p.batch, k)) : k \in 1..p.size}
    /\ error' = Null
    /\ last' = [op |-> "addDone", arg |-> Null]
    /\ UNCHANGED << nextBatch, picked, rejected, inputVars, copyVars, imageVars, scriptVars >>

\* a handleFileChange that waits with Promise.allSettled and appends the
\* files that did decode
handleFileChangeFailed_AppendsDecoded(p, decoded) ==
    /\ p \in pendingAdds
    /\ decoded \subseteq 1..p.size
    /\ decoded # 1..p.size
    /\ pendingAdds' = pendingAdds \ {p}
    /\ objectURLs' = objectURLs \cup {createObjectURL(FileOf(p.batch, k)) : k \in decoded}
    /\ \E ids \in [1..p.size -> Ids] :
          LET all == [k \in 1..p.size |-> UploadedFile(FileOf(p.batch, k), ids[k])]
              Decoded(f) == f.file[2] \in decoded
          IN  files' = files \o SelectSeq(all, Decoded)
    /\ last' = [op |-> "addFailed", arg |-> Null]
    /\ UNCHANGED << error, nextBatch, picked, rejected,
                    inputVars, copyVars, imageVars, scriptVars >>

\* handleFileChange when a fileToBase64 promise rejects (reader.onerror):
\* Promise.all rejects, the handler ends in an unhandled rejection and calls
\* no setter.  decoded are the files of the batch whose own callback ran to
\* its end, each creating its object URL; at least one file is not among them.
handleFileChangeFailed(p, decoded) ==
    /\ p \in pendingAdds
    /\ decoded \subseteq 1..p.size
    /\ decoded # 1..p.size
    /\ pendingAdds' = pendingAdds \ {p}
    /\ objectURLs' = objectURLs \cup {createObjectURL(FileOf(p.batch, k)) : k \in decoded}
    /\ last' = [op |-> "addFailed", arg |-> Null]
    /\ UNCHANGED << files, error, nextBatch, picked, rejected,
                    inputVars, copyVars, imageVars, scriptVars >>

\* removeFile: setFiles(prev => prev.filter(f => f.id !== id)), and nothing
\* else: no URL.revokeObjectURL
removeFile(id) ==
    /\ LET Keep(f) == f.id # id IN files' = SelectSeq(files, Keep)
    /\ last' = [op |-> "remove", arg |-> Null]
    /\ UNCHANGED << error, pendingAdds, nextBatch, picked, rejected, objectURLs,
                    inputVars, copyVars, imageVars, scriptVars >>

(***************************************************************************)
(* The user's triggers on the upload section of the page.                  *)
(***************************************************************************)
\* the file input's onChange (App.tsx:290-297); the input is always rendered
PickFiles(maxBatches, maxPicked) ==
    \E n \in 0..(MaxFiles + 1) : handleFileChange(n, maxBatches, maxPicked)

\* the decoding of an accepted selection ends
DecodeEnds ==
    \E p \in pendingAdds :
        \/ \E ids \in [1..p.size -> Ids] : handleFileChangeDone(p, ids)
        \/ \E decoded \in SUBSET (1..p.size) : handleFileChangeFailed(p, decoded)

\* the X button of a rendered preview (App.tsx:306-320)
ClickRemove ==
    \E i \in 1..Len(files) : removeFile(files[i].id)

(***************************************************************************)
(* The image service and the text service, as the handlers see them.       *)
(***************************************************************************)
\* base64 image payloads the image service may return
Payloads == {"AAAA", "BBBB"}

\* the content parts of a response: text parts and parts with inlineData
Parts ==
    {[text |-> "caption"]} \cup {[inlineData |-> [data |-> d]] : d \in Payloads}

\* how an image call ends: ai.models.generateContent resolves with a
\* response (parts is response.candidates?.[0]?.content?.parts || []), or it
\* throws an error with some message
ImageOutcomes ==
    {[kind |-> "response", parts |-> ps] : ps \in SeqsUpTo(Parts, MaxParts)}
    \cup {[kind |-> "throw", message |-> m] : m \in {"", "network error"}}

\* how a script call ends: a response whose text is absent, empty or some
\* text, or a thrown error
ScriptOutcomes ==
    {[kind |-> "response", text |-> t] : t \in {Null, "", "INT. CITY - DAY..."}}
    \cup {[kind |-> "throw"]}

(***************************************************************************)
(* Generation orchestrator: generateImage.                                 *)
(***************************************************************************)
\* the template literal of App.tsx:133-136, as the values it embeds
ImagePrompt ==
    << description, Find(SCENES, selectedScene).prompt, Find(STYLES, selectedStyle).prompt >>

\* App.tsx:138-156  the text part, then one inlineData part per stored file;
\* sent counts the requests this invocation has sent (the one generateContent
\* call of App.tsx:148); scene is history: the id of the scene whose prompt
\* the request embeds
ImageRequest ==
    [ model  |-> "gemini-2.5-flash-image",
      prompt |-> ImagePrompt,
      images |-> [i \in 1..Len(files) |-> files[i].base64],
      aspectRatio |-> "16:9",
      sent   |-> 1,
      scene  |-> selectedScene ]

\* every outstanding script call has now seen generatedImage reassigned
ImageReassigned(calls) ==
    [i \in 1..Len(calls) |-> [calls[i] EXCEPT !.imageChanged = TRUE]]

\* a validation that lets every input through
InputMissing_Never == FALSE

\* App.tsx:118  !description && files.length === 0
InputMissing == Falsy(description) /\ Len(files) = 0

\* generateImage without setGeneratedImage(null): the earlier image stays on
\* the page while the new one is requested
generateImage_KeepsImage ==
    IF InputMissing
    THEN /\ error' = ErrValidation
         /\ last' = [op |-> "imageInvalid", arg |-> Null]
         /\ UNCHANGED << uploadVars, inputVars, copyVars, imageVars, scriptVars >>
    ELSE /\ Len(imageCalls) < MaxInFlight
         /\ isGenerating' = TRUE
         /\ videoScript' = Null
         /\ error' = Null
         /\ imageCalls' = Append(imageCalls, ImageRequest)
         /\ scriptOrigin' = "none"
         /\ last' = [op |-> "imageStarted", arg |-> Null]
         /\ UNCHANGED << uploadVars, inputVars, copyVars, isGeneratingScript,
                         generatedImage, imageInputs, scriptCalls >>

\* generateImage up to its await (App.tsx:117-156)
generateImage ==
    IF InputMissing
    THEN /\ error' = ErrValidation
         /\ last' = [op |-> "imageInvalid", arg |-> Null]
         /\ UNCHANGED << uploadVars, inputVars, copyVars, imageVars, scriptVars >>
    ELSE /\ Len(imageCalls) < MaxInFlight
         /\ isGenerating' = TRUE
         /\ generatedImage' = Null
         /\ imageInputs' = Null
         /\ videoScript' = Null
         /\ error' = Null
         /\ imageCalls' = Append(imageCalls, ImageRequest)
         /\ scriptCalls' = ImageReassigned(scriptCalls)
         /\ scriptOrigin' = "none"
         /\ last' = [op |-> "imageStarted", arg |-> Null]
         /\ UNCHANGED << uploadVars, inputVars, copyVars, isGeneratingScript >>

\* the for loop of App.tsx:159-165: the index of the first part with
\* inlineData at or after i, 0 when there is none
RECURSIVE FirstInline(_, _)
FirstInline(parts, i) ==
    IF i > Len(parts) THEN 0
    ELSE IF "inlineData" \in DOMAIN parts[i] THEN i
    ELSE FirstInline(parts, i + 1)

\* `data:image/png;base64,${part.inlineData.data}`
DataUrl(data) == "data:image/png;base64," \o data

\* a catch block that shows err.message as it is
CaughtMessage_NoFallback(message) == message

\* the message of the catch block: err.message || '...'
CaughtMessage(message) == IF Falsy(message) THEN ErrImage ELSE message

\* generateImage's continuation with a retry: a failed request is sent once
\* more before the failure is reported
generateImageDone_Retries(i, outcome) ==
    /\ i \in 1..Len(imageCalls)
    /\ LET found == IF outcome.kind = "response" THEN FirstInline(outcome.parts, 1) ELSE 0
       IN  IF found > 0
           THEN /\ imageCalls' = RemoveAt(imageCalls, i)
                /\ generatedImage' = DataUrl(outcome.parts[found].inlineData.data)
                /\ imageInputs' = << imageCalls[i].prompt[1], imageCalls[i].scene >>
                /\ scriptCalls' = ImageReassigned(scriptCalls)
                /\ scriptOrigin' = IF videoScript = Null THEN "none" ELSE "replaced"
                /\ last' = [op |-> "imageDone", arg |-> outcome]
                /\ isGenerating' = FALSE
                /\ UNCHANGED error
           ELSE IF imageCalls[i].sent = 1
           THEN /\ imageCalls' = [imageCalls EXCEPT ![i].sent = @ + 1]
                /\ last' = [op |-> "imageRetried", arg |-> outcome]
                /\ UNCHANGED << isGenerating, generatedImage, imageInputs,
                                scriptCalls, scriptOrigin, error >>
           ELSE /\ imageCalls' = RemoveAt(imageCalls, i)
                /\ error' = CaughtMessage(IF outcome.kind = "throw"
                                          THEN outcome.message ELSE ErrNoImage)
                /\ last' = [op |-> "imageFailed", arg |-> outcome]
                /\ isGenerating' = FALSE
                /\ UNCHANGED << generatedImage, imageInputs, scriptCalls, scriptOrigin >>
    /\ UNCHANGED << uploadVars, inputVars, copyVars, videoScript, isGeneratingScript >>

\* generateImage from the resolution of its await to its end (App.tsx:158-175)
generateImageDone(i, outcome) ==
    /\ i \in 1..Len(imageCalls)
    /\ imageCalls' = RemoveAt(imageCalls, i)
    /\ LET found == IF outcome.kind = "response" THEN FirstInline(outcome.parts, 1) ELSE 0
       IN  IF found > 0
           THEN /\ generatedImage' = DataUrl(outcome.parts[found].inlineData.data)
                /\ imageInputs' = << imageCalls[i].prompt[1], imageCalls[i].scene >>
                /\ scriptCalls' = ImageReassigned(scriptCalls)
                /\ scriptOrigin' = IF videoScript = Null THEN "none" ELSE "replaced"
                /\ last' = [op |-> "imageDone", arg |-> outcome]
                /\ UNCHANGED error
           ELSE /\ error' = CaughtMessage(IF outcome.kind = "throw"
                                          THEN outcome.message ELSE ErrNoImage)
                /\ last' = [op |-> "imageFailed", arg |-> outcome]
                /\ UNCHANGED << generatedImage, imageInputs, scriptCalls, scriptOrigin >>
    /\ isGenerating' = FALSE
    /\ UNCHANGED << uploadVars, inputVars, copyVars, videoScript, isGeneratingScript >>

(***************************************************************************)
(* Generation orchestrator: generateVideoScript.                           *)
(***************************************************************************)
\* the template literal of App.tsx:186-194, as the values it embeds
ScriptPrompt == << description, Find(SCENES, selectedScene).label >>

\* the request of App.tsx:196-199; sent counts the requests this invocation
\* has sent, imageChanged is history
ScriptRequest ==
    [ model  |-> "gemini-3-flash-preview",
      prompt |-> ScriptPrompt,
      sent   |-> 1,
      imageChanged |-> FALSE ]

\* generateVideoScript without its early return
generateVideoScript_NoGuard ==
    /\ Len(scriptCalls) < MaxInFlight
    /\ isGeneratingScript' = TRUE
    /\ scriptCalls' = Append(scriptCalls, ScriptRequest)
    /\ last' = [op |-> "scriptStarted", arg |-> Null]
    /\ UNCHANGED << uploadVars, inputVars, copyVars, imageVars, videoScript, scriptOrigin, error >>

\* generateVideoScript up to its await (App.tsx:178-199)
generateVideoScript ==
    IF Falsy(generatedImage)
    THEN /\ last' = [op |-> "scriptNoop", arg |-> Null]
         /\ UNCHANGED << uploadVars, inputVars, copyVars, imageVars, scriptVars, error >>
    ELSE /\ Len(scriptCalls) < MaxInFlight
         /\ isGeneratingScript' = TRUE
         /\ scriptCalls' = Append(scriptCalls, ScriptRequest)
         /\ last' = [op |-> "scriptStarted", arg |-> Null]
         /\ UNCHANGED << uploadVars, inputVars, copyVars, imageVars, videoScript, scriptOrigin, error >>

\* the response's text stored as it is
ScriptText_NoFallback(text) == text

\* response.text || '...'
ScriptText(text) == IF Falsy(text) THEN FallbackScript ELSE text

\* generateVideoScript's continuation without its finally block
generateVideoScriptDone_NoFinally(i, outcome) ==
    /\ i \in 1..Len(scriptCalls)
    /\ scriptCalls' = RemoveAt(scriptCalls, i)
    /\ IF outcome.kind = "response"
       THEN /\ videoScript' = ScriptText(outcome.text)
            /\ scriptOrigin' = IF scriptCalls[i].imageChanged THEN "replaced" ELSE "current"
            /\ last' = [op |-> "scriptDone",
                        arg |-> [text |-> outcome.text, sent |-> scriptCalls[i].sent]]
            /\ isGeneratingScript' = FALSE
            /\ UNCHANGED error
       ELSE /\ error' = ErrScript
            /\ last' = [op |-> "scriptFailed", arg |-> Null]
            /\ UNCHANGED << videoScript, scriptOrigin, isGeneratingScript >>
    /\ UNCHANGED << uploadVars, inputVars, copyVars, imageVars >>

\* generateVideoScript from the resolution of its await to its end
\* (App.tsx:201-207)
generateVideoScriptDone(i, outcome) ==
    /\ i \in 1..Len(scriptCalls)
    /\ scriptCalls' = RemoveAt(scriptCalls, i)
    /\ IF outcome.kind = "response"
       THEN /\ videoScript' = ScriptText(outcome.text)
            /\ scriptOrigin' = IF scriptCalls[i].imageChanged THEN "replaced" ELSE "current"
            /\ last' = [op |-> "scriptDone",
                        arg |-> [text |-> outcome.text, sent |-> scriptCalls[i].sent]]
            /\ UNCHANGED error
       ELSE /\ error' = ErrScript
            /\ last' = [op |-> "scriptFailed", arg |-> Null]
            /\ UNCHANGED << videoScript, scriptOrigin >>
    /\ isGeneratingScript' = FALSE
    /\ UNCHANGED << uploadVars, inputVars, copyVars, imageVars >>

(***************************************************************************)
(* The user's triggers on the rest of the page, and the services' answers. *)
(***************************************************************************)
\* the textarea's onChange (App.tsx:334-339)
TypeDescription ==
    /\ \E d \in Descriptions \ {description} : description' = d
    /\ last' = [op |-> "edit", arg |-> Null]
    /\ UNCHANGED << uploadVars, copyVars, selectedScene, selectedStyle, imageVars, scriptVars, error >>

\* a scene button (App.tsx:350-363)
SelectScene ==
    /\ \E i \in 1..Len(SCENES) : SCENES[i].id # selectedScene /\ selectedScene' = SCENES[i].id
    /\ last' = [op |-> "edit", arg |-> Null]
    /\ UNCHANGED << uploadVars, copyVars, description, selectedStyle, imageVars, scriptVars, error >>

\* a style button (App.tsx:373-386)
SelectStyle ==
    /\ \E i \in 1..Len(STYLES) : STYLES[i].id # selectedStyle /\ selectedStyle' = STYLES[i].id
    /\ last' = [op |-> "edit", arg |-> Null]
    /\ UNCHANGED << uploadVars, copyVars, description, selectedScene, imageVars, scriptVars, error >>

\* a main button that is never disabled
GenerateButtonEnabled_Always == TRUE

\* the main button: disabled={isGenerating} (App.tsx:392-394)
GenerateButtonEnabled == ~isGenerating
ClickGenerate == GenerateButtonEnabled /\ generateImage

\* the regenerate button, rendered under {generatedImage && ...} (App.tsx:451-474)
RegenerateButtonRendered == ~Falsy(generatedImage)
ClickRegenerate == RegenerateButtonRendered /\ generateImage

\* a script button that stays rendered while a script call is outstanding
ScriptButtonRendered_IgnoresBusy == ~Falsy(generatedImage) /\ Falsy(videoScript)

\* the script button, rendered under {generatedImage && ...} and
\* {!videoScript && !isGeneratingScript ? ...} (App.tsx:482-500)
ScriptButtonRendered ==
    ~Falsy(generatedImage) /\ Falsy(videoScript) /\ ~isGeneratingScript
ClickGenerateScript == ScriptButtonRendered /\ generateVideoScript

(***************************************************************************)
(* copyToClipboard and its timers.                                         *)
(***************************************************************************)
\* copyToClipboard (App.tsx:218-223): nothing without a videoScript; else the
\* text goes to the clipboard, copied is set, and one more timer is started.
\* Nothing keeps or clears the timers started earlier.  latest is history:
\* it marks the timer of the most recent copy.  The guard on Len bounds the
\* timers the model explores.
copyToClipboard ==
    IF Falsy(videoScript)
    THEN /\ last' = [op |-> "copyNoop", arg |-> Null]
         /\ UNCHANGED << uploadVars, inputVars, imageVars, scriptVars, error, copyVars >>
    ELSE /\ Len(copyTimers) < MaxTimers
         /\ clipboard' = videoScript
         /\ copied' = TRUE
         /\ copyTimers' = Append([i \in 1..Len(copyTimers) |->
                                    [copyTimers[i] EXCEPT !.latest = FALSE]],
                                 [delay |-> CopiedDelay, latest |-> TRUE])
         /\ last' = [op |-> "copy", arg |-> Null]
         /\ UNCHANGED << uploadVars, inputVars, imageVars, scriptVars, error >>

\* the callback of a timer: () => setCopied(false).  All timers have the same
\* delay, so they expire in the order they were started.
copiedTimeout ==
    /\ Len(copyTimers) > 0
    /\ copyTimers' = Tail(copyTimers)
    /\ copied' = FALSE
    /\ last' = [op |-> "copyTimeout", arg |-> Null]
    /\ UNCHANGED << uploadVars, inputVars, imageVars, scriptVars, error, clipboard >>

\* the copy button, rendered under {generatedImage && ...} in the branch
\* {... : videoScript && ...} (App.tsx:482-509)
CopyButtonRendered ==
    /\ ~Falsy(generatedImage)
    /\ ~(Falsy(videoScript) /\ ~isGeneratingScript)
    /\ ~Falsy(videoScript)
ClickCopy == CopyButtonRendered /\ copyToClipboard

\* the oldest pending timer expires
CopyTimerFires == copiedTimeout

\* the image service answers an outstanding call
ImageServiceAnswers ==
    \E i \in 1..Len(imageCalls) : \E outcome \in ImageOutcomes : generateImageDone(i, outcome)

\* the text service answers an outstanding call
TextServiceAnswers ==
    \E i \in 1..Len(scriptCalls) : \E outcome \in ScriptOutcomes : generateVideoScriptDone(i, outcome)

\* the page: every trigger the render offers but the copy button (NextCopy),
\* and every completion
Next ==
    \/ PickFiles(GenBatches, GenPicked)
    \/ DecodeEnds
    \/ ClickRemove
    \/ TypeDescription
    \/ SelectScene
    \/ SelectStyle
    \/ ClickGenerate
    \/ ClickRegenerate
    \/ ClickGenerateScript
    \/ ImageServiceAnswers
    \/ TextServiceAnswers

Spec == Init /\ [][Next]_vars

\* the handlers called as functions, whatever the render offers (a caller
\* other than the page's own buttons: the data layer withholds nothing)
CallGenerateImage == generateImage
CallGenerateVideoScript == generateVideoScript

NextDirect ==
    \/ TypeDescription
    \/ CallGenerateImage
    \/ CallGenerateVideoScript
    \/ ImageServiceAnswers
    \/ TextServiceAnswers

SpecDirect == Init /\ [][NextDirect]_vars

\* the generation section of the page with services that answer every call:
\* a call, once issued, stays outstanding until its answer is processed, so
\* weak fairness of the two answers says that every call completes
NextLive ==
    \/ TypeDescription
    \/ ClickGenerate
    \/ ClickRegenerate
    \/ ClickGenerateScript
    \/ ImageServiceAnswers
    \/ TextServiceAnswers

SpecLive ==
    /\ Init
    /\ [][NextLive]_vars
    /\ WF_vars(ImageServiceAnswers)
    /\ WF_vars(TextServiceAnswers)

\* the script panel of the page: what it takes to get a videoScript, the copy
\* button and the timers
NextCopy ==
    \/ TypeDescription
    \/ ClickGenerate
    \/ ClickRegenerate
    \/ ClickGenerateScript
    \/ ImageServiceAnswers
    \/ TextServiceAnswers
    \/ ClickCopy
    \/ CopyTimerFires

SpecCopy == Init /\ [][NextCopy]_vars

\* the upload store alone
NextStore ==
    \/ PickFiles(MaxBatches, MaxPicked)
    \/ DecodeEnds
    \/ ClickRemove

SpecStore == Init /\ [][NextStore]_vars

(***************************************************************************)
(* The claims.                                                             *)
(***************************************************************************)

\* C1: in every reachable state a non-null videoScript was derived from the
\* generatedImage of that state: generatedImage is not null and has not been
\* reassigned since the script call read it.
C1_ScriptOfCurrentImage ==
    videoScript # Null => (generatedImage # Null /\ scriptOrigin = "current")

\* C2: the upload store holds at most 6 entries in every reachable state.
C2_AtMostSixFiles == Len(files) <= MaxFiles

\* C3: an add whose batch would take the store over 6 is refused whole: the
\* step (a file selection: it takes the next selection number) leaves files
\* as they were, starts no decoding and reports the capacity error; and no
\* file of a refused batch is in the store in any later state.
C3_OverflowRejected ==
    [][ /\ nextBatch' # nextBatch =>
             \A n \in 0..(MaxFiles + 1) :
                (Len(files) + n > MaxFiles /\ handleFileChange(n, MaxBatches, MaxPicked))
                => /\ files' = files
                   /\ pendingAdds' = pendingAdds
                   /\ error' = ErrCapacity
                   /\ nextBatch \in rejected'
        /\ \A i \in 1..Len(files') : files'[i].file[1] \notin rejected' ]_vars

\* a batch has just been refused because of the files already in the store
C3_Witness ==
    /\ last.op = "addRejected"
    /\ error = ErrCapacity
    /\ Len(files) \in 1..MaxFiles
    /\ \E b \in rejected : \E i \in 1..Len(files) : files[i].file[1] < b

\* C4: at most one image call is outstanding, and while one is, neither the
\* main button nor the regenerate button can be used.
C4_OneImageCall ==
    /\ Len(imageCalls) <= 1
    /\ Len(imageCalls) = 1 => (~GenerateButtonEnabled /\ ~RegenerateButtonRendered)

\* a regeneration is outstanding (a script call of the earlier image still is)
C4_Witness ==
    /\ Len(imageCalls) = 1
    /\ Len(scriptCalls) = 1
    /\ last.op = "imageStarted"

\* C5: generateImage with an empty description and an empty store sets the
\* validation error, sends no request, and leaves generatedImage, videoScript
\* and isGenerating as they were.
C5_ValidationFails ==
    [][ (Falsy(description) /\ Len(files) = 0 /\ generateImage)
        => /\ error' = ErrValidation
           /\ imageCalls' = imageCalls
           /\ UNCHANGED << generatedImage, videoScript, isGenerating >> ]_vars

\* the validation failed with an image and its script on the page
C5_Witness ==
    /\ last.op = "imageInvalid"
    /\ error = ErrValidation
    /\ generatedImage # Null
    /\ videoScript # Null

\* C6: after a response with an inline image part is processed,
\* generatedImage is the data URL of the first such part and videoScript is
\* null.
C6_FirstInlinePartAndNoScript ==
    last.op = "imageDone"
    => /\ \E k \in 1..Len(last.arg.parts) :
            /\ "inlineData" \in DOMAIN last.arg.parts[k]
            /\ \A j \in 1..(k - 1) : "inlineData" \notin DOMAIN last.arg.parts[j]
            /\ generatedImage = "data:image/png;base64," \o last.arg.parts[k].inlineData.data
       /\ videoScript = Null

\* C7: after a validated generateImage failed (no inline part, or a throw),
\* an error message is shown and generatedImage is null.
C7_FailureLeavesNoImage ==
    last.op = "imageFailed" => (~Falsy(error) /\ generatedImage = Null)

\* a regeneration failed: a script call of the earlier image is still
\* outstanding, so there was a generatedImage before the call
C7_Witness ==
    /\ last.op = "imageFailed"
    /\ Len(scriptCalls) = 1
    /\ generatedImage = Null

\* C8: generateVideoScript called while generatedImage is null sends no
\* request and leaves videoScript, isGeneratingScript and error as they were.
C8_ScriptNoop ==
    [][ (generatedImage = Null /\ generateVideoScript)
        => /\ scriptCalls' = scriptCalls
           /\ UNCHANGED << videoScript, isGeneratingScript, error >> ]_vars

\* generateVideoScript was called with no generatedImage
C8_Witness == last.op = "scriptNoop" /\ generatedImage = Null

\* C9: at most one script call is outstanding, and while one is, the script
\* button is not rendered.
C9_OneScriptCall ==
    /\ Len(scriptCalls) <= 1
    /\ Len(scriptCalls) = 1 => (isGeneratingScript /\ ~ScriptButtonRendered)

\* a script call is outstanding, and a regeneration has since cleared
\* videoScript and produced a new generatedImage
C9_Witness ==
    /\ Len(scriptCalls) = 1
    /\ scriptCalls[1].imageChanged
    /\ generatedImage # Null
    /\ videoScript = Null

\* C10: after a script call completed with a response, videoScript is the
\* response's text, or the placeholder when the text is absent or empty; the
\* invocation sent one request.
C10_ScriptStoredVerbatim ==
    last.op = "scriptDone"
    => /\ videoScript = IF last.arg.text \in {Null, ""}
                        THEN FallbackScript ELSE last.arg.text
       /\ last.arg.sent = 1

\* a script call completed with an empty text
C10_Witness ==
    /\ last.op = "scriptDone"
    /\ last.arg.text = ""
    /\ videoScript = FallbackScript

\* C11: when the script call throws, the step sets the script error message,
\* leaves videoScript null and generatedImage as it was, and ends with
\* isGeneratingScript false.
C11_ScriptFailure ==
    [][ \A i \in 1..Len(scriptCalls) :
            generateVideoScriptDone(i, [kind |-> "throw"])
            => /\ error' = ErrScript
               /\ videoScript' = Null
               /\ generatedImage' = generatedImage
               /\ isGeneratingScript' = FALSE ]_vars

\* a script call of the image on the page has just thrown
C11_Witness ==
    /\ last.op = "scriptFailed"
    /\ error = ErrScript
    /\ generatedImage # Null
    /\ videoScript = Null
    /\ ~isGeneratingScript

\* C12: removeFile(id) takes out of files exactly one entry, the one whose id
\* is id, and keeps the others in their order; with no such entry it leaves
\* files as they were.
C12_RemoveExactlyOne ==
    [][ \A id \in Ids :
            removeFile(id)
            => IF \E i \in 1..Len(files) : files[i].id = id
               THEN \E i \in 1..Len(files) :
                        files[i].id = id /\ files' = RemoveAt(files, i)
               ELSE files' = files ]_vars

\* C13: no two entries of files have the same id.
C13_UniqueIds ==
    \A i, j \in 1..Len(files) : i # j => files[i].id # files[j].id

\* C14: removeFile(id) releases the object URL of every entry it deletes.
C14_RemoveReleasesPreview ==
    [][ \A id \in Ids :
            removeFile(id)
            => \A i \in 1..Len(files) :
                  files[i].id = id => files[i].preview \notin objectURLs' ]_vars

\* C15: files holds the accepted files in arrival order: the files of one
\* selection in the order of the selection, and the files of an earlier
\* selection before those of a later one.
C15_ArrivalOrder ==
    \A i, j \in 1..Len(files) :
        i < j => \/ files[i].file[1] < files[j].file[1]
                 \/ /\ files[i].file[1] = files[j].file[1]
                    /\ files[i].file[2] < files[j].file[2]

\* C16: the prompt of a script request embeds the description and the label
\* of the scene that the image request behind the current generatedImage was
\* built from.
C16_ScriptFromImageInputs ==
    last.op = "scriptStarted"
    => scriptCalls[Len(scriptCalls)].prompt
          = << imageInputs[1], Find(SCENES, imageInputs[2]).label >>

\* C17: a generateImage invocation that passed validation has sent exactly
\* one request, and nothing is sent again when it ends: after a validated
\* trigger one call is outstanding, after its completion (with an image,
\* without one, or by a throw) none is, and an invocation that failed
\* validation leaves none.
C17_OneRequestPerTrigger ==
    /\ \A i \in 1..Len(imageCalls) : imageCalls[i].sent = 1
    /\ last.op = "imageStarted" => Len(imageCalls) = 1
    /\ last.op \in {"imageDone", "imageFailed", "imageInvalid"} => Len(imageCalls) = 0

\* the image call has just thrown, and no call is outstanding
C17_Witness ==
    /\ last.op = "imageFailed"
    /\ last.arg.kind = "throw"
    /\ Len(imageCalls) = 0
    /\ ~isGenerating

\* C18: while isGenerating is true generatedImage is null, so the regenerate
\* button and the script panel are not rendered; and a step that puts an
\* image into generatedImage is a step that ends isGenerating.
C18_NoImageWhileGenerating ==
    /\ [](isGenerating => (generatedImage = Null /\ ~RegenerateButtonRendered
                                                  /\ ~ScriptButtonRendered))
    /\ [][ (generatedImage' # generatedImage /\ generatedImage' # Null)
           => (isGenerating /\ ~isGenerating') ]_vars

\* a regeneration is under way: the image that was on the page, whose script
\* call is still outstanding, has been cleared
C18_Witness ==
    /\ isGenerating
    /\ generatedImage = Null
    /\ \E i \in 1..Len(scriptCalls) : scriptCalls[i].imageChanged

\* C19: isGenerating is true exactly while an image call is outstanding and
\* isGeneratingScript exactly while a script call is; and when every call is
\* answered, a raised flag is lowered again: the main button becomes usable
\* again, and both flags are false together again.
C19_FlagsTrackCalls ==
    /\ [](isGenerating <=> Len(imageCalls) > 0)
    /\ [](isGeneratingScript <=> Len(scriptCalls) > 0)
    /\ isGenerating ~> (~isGenerating /\ GenerateButtonEnabled)
    /\ isGeneratingScript ~> ~isGeneratingScript
    /\ (isGenerating \/ isGeneratingScript) ~> (~isGenerating /\ ~isGeneratingScript)

\* both flags were raised and are lowered again: an image call and then a
\* script call of its image have ended, the second by a throw
C19_Witness ==
    /\ last.op = "scriptFailed"
    /\ ~isGenerating
    /\ ~isGeneratingScript
    /\ Len(imageCalls) = 0
    /\ Len(scriptCalls) = 0
    /\ GenerateButtonEnabled

\* C20: an accepted selection is appended whole or not at all.  When a decode
\* of the batch fails, the step leaves files as they were, whichever files
\* of the batch did decode, and the batch is no longer pending.  When every
\* file decodes, the step appends all the files of the batch, in one update.
\* No file of a batch still decoding is in files.
C20_BatchAllOrNothing ==
    [][ /\ \A p \in pendingAdds :
            /\ \A decoded \in SUBSET (1..p.size) :
                   handleFileChangeFailed(p, decoded)
                   => (files' = files /\ p \notin pendingAdds')
            /\ \A ids \in [1..p.size -> Ids] :
                   handleFileChangeDone(p, ids)
                   => /\ Len(files') = Len(files) + p.size
                      /\ SubSeq(files', 1, Len(files)) = files
                      /\ \A k \in 1..p.size :
                            files'[Len(files) + k].file = FileOf(p.batch, k)
        /\ \A q \in pendingAdds' : \A i \in 1..Len(files') :
              files'[i].file[1] # q.batch ]_vars

\* a batch of several files has just failed to decode although some of its
\* files did decode, and the store holds files of another batch only
C20_Witness ==
    /\ last.op = "addFailed"
    /\ Len(files) > 0
    /\ \E u \in objectURLs : \A i \in 1..Len(files) : files[i].preview # u
    /\ Cardinality({files[i].file[1] : i \in 1..Len(files)}) = 1
    /\ Cardinality({u[2][1] : u \in objectURLs}) = 2

\* C21: after a copy made with a videoScript, copied is true for as long as
\* the timer started by that copy is pending, and false once no such timer is
\* pending.
C21_CopiedUntilOwnTimer ==
    /\ (\E i \in 1..Len(copyTimers) : copyTimers[i].latest) => copied
    /\ (\A i \in 1..Len(copyTimers) : ~copyTimers[i].latest) => ~copied

====
